---- MODULE Spec2Model ----
(***************************************************************************)
(* Model of the per-user timer bot of src/main.ts: the webhook ingress     *)
(* (Deno.serve), the command interpreter (handleEvent), the subscriber     *)
(* store (Deno KV under the prefix ["users"]) and the sweep                *)
(* (Deno.cron "Check User Timers").                                        *)
(*                                                                         *)
(* Every await of the source is a suspension point: the operation is       *)
(* dispatched by the step that reaches it and takes effect (or fails) in a *)
(* later step, so that other handlers and the sweep interleave with it.    *)
(***************************************************************************)
EXTENDS Integers, Sequences, FiniteSets, TLC

\* ------------------------------------------------------------------ bounds
\* Number of times the clock advances in a behaviour.
MaxAdvances == 2
\* Number of webhook requests received in a behaviour.
MaxRequests == 2
\* Number of events in one webhook envelope.
MaxEvents == 2
\* Number of minutes the clock of the timed specification runs.
MaxMinutes == 122
\* Number of keys under ["subscribers"] in the multicast variant.
MaxSubscribers == 1001

\* --------------------------------------------------------------- constants
\* const oneHour = 60 * 60 * 1000 (milliseconds)
oneHour == 60 * 60 * 1000

\* The schedule "* * * * *" of Deno.cron: every minute (milliseconds)
cadence == 60 * 1000

\* const channelSecret = Deno.env.get("LINE_CHANNEL_SECRET")
channelSecret == "secret"

Users == {"U1", "U2"}
NoUser == "none"
\* No x-line-signature header.
NoSig == <<>>

\* The instants at which something happens are the multiples of the interval
\* and the millisecond before each: from a record written at T the clock
\* reaches T + oneHour - 1 and T + oneHour.
Delta(c) == IF c % oneHour = 0 THEN oneHour - 1 ELSE 1

\* UserData { startTime, lastSentTime }
UserData(start, last) == [startTime |-> start, lastSentTime |-> last]

\* Deno KV under the prefix ["users"] is a function from the keys present to
\* their values. kv.set(key, value), kv.delete(key):
KvSet(kv, key, value) ==
  [k \in DOMAIN kv \cup {key} |-> IF k = key THEN value ELSE kv[k]]
KvDelete(kv, key) == [k \in DOMAIN kv \ {key} |-> kv[k]]

\* The keys in the order kv.list yields them.
KeyOrder == <<"U1", "U2">>
KeyIndex(u) == CHOOSE i \in 1..Len(KeyOrder) : KeyOrder[i] = u

\* ------------------------------------------------------------- text command
IsSpace(c) == c \in {" ", "\n", "\t"}

\* String.prototype.toLowerCase, one character
LowerChar(c) ==
  CASE c = "S" -> "s" [] c = "T" -> "t" [] c = "A" -> "a" [] c = "R" -> "r"
    [] c = "O" -> "o" [] c = "P" -> "p" [] c = "H" -> "h" [] c = "I" -> "i"
    [] OTHER -> c

toLowerCase(s) == [i \in 1..Len(s) |-> LowerChar(s[i])]

RECURSIVE trimStart(_)
trimStart(s) ==
  IF s # <<>> /\ IsSpace(Head(s)) THEN trimStart(Tail(s)) ELSE s

RECURSIVE trimEnd(_)
trimEnd(s) ==
  IF s # <<>> /\ IsSpace(s[Len(s)]) THEN trimEnd(SubSeq(s, 1, Len(s) - 1)) ELSE s

\* String.prototype.trim
trim(s) == trimEnd(trimStart(s))

StartText == <<"s", "t", "a", "r", "t">>
StopText == <<"s", "t", "o", "p">>

\* const text = event.message.text.trim().toLowerCase()
NormalizeText(s) == toLowerCase(trim(s))

\* A variant that takes every text beginning with "start" for start.
CommandOf_Prefix(text) ==
  IF Len(text) >= Len(StartText) /\ SubSeq(text, 1, Len(StartText)) = StartText
    THEN "start"
  ELSE IF text = StopText THEN "stop"
  ELSE "other"

\* The branch of handleEvent taken for a normalised text.
CommandOf(text) ==
  IF text = StartText THEN "start"
  ELSE IF text = StopText THEN "stop"
  ELSE "other"

\* The reply texts of handleEvent, by name.
StartReply == "started"
StopReply == "stopped"
HelpReply == "help"

\* ------------------------------------------------------------------ inputs
\* Message texts as sequences of characters.
Texts ==
  { <<" ", "S", "T", "A", "R", "T", " ">>,
    <<"S", "t", "o", "p", "\n">>,
    <<"s", "t", "a", "r", "t", "s">>,
    <<"s", "t", " ", "o", "p">> }

\* WebhookEvent: text messages (every text from U1, start from U2), a text
\* message without userId, a non-text
\* message, a non-message event, and an event with type "message" that
\* carries no message object.
TextEvents ==
  [type : {"message"}, msgType : {"text"}, userId : {"U1"}, text : Texts]
  \cup [type : {"message"}, msgType : {"text"}, userId : {"U2"},
        text : {<<"s", "t", "a", "r", "t">>}]
OtherEvents ==
  { [type |-> "message", msgType |-> "text", userId |-> NoUser,
     text |-> <<"s", "t", "a", "r", "t">>],
    [type |-> "message", msgType |-> "image", userId |-> "U1", text |-> <<>>],
    [type |-> "follow", msgType |-> "none", userId |-> "U1", text |-> <<>>],
    [type |-> "message", msgType |-> "missing", userId |-> "U1", text |-> <<>>] }
Events == TextEvents \cup OtherEvents

Batches == UNION {[1..n -> Events] : n \in 0..MaxEvents}

\* Request bodies: text that is no JSON, JSON without an events field, and
\* an envelope of events.
Garbage == [kind |-> "garbage", events |-> <<>>]
NoEvents == [kind |-> "noevents", events |-> <<>>]
Envelope(es) == [kind |-> "envelope", events |-> es]
Bodies == {Garbage, NoEvents} \cup {Envelope(es) : es \in Batches}

\* The signature of a body under a secret (an ideal keyed digest).
Sign(body, secret) == <<secret, body>>

\* validateSignature(body, channelSecret, signature)
validateSignature(body, secret, signature) == signature = Sign(body, secret)

\* The values of the x-line-signature header tried for a body: none, the
\* right one, one made with another secret, one made for another body.
SignaturesFor(body) ==
  { NoSig,
    Sign(body, channelSecret),
    Sign(body, "guess"),
    Sign(Envelope(<<>>), channelSecret) }

Methods == {"GET", "POST", "PUT"}
Paths == {"/webhook", "/", "/other"}

Request(method, path, signature, body) ==
  [method |-> method, path |-> path, signature |-> signature, body |-> body]

\* A start command of user U1, as LINE sends it.
StartU1 ==
  Envelope(<<[type |-> "message", msgType |-> "text", userId |-> "U1",
              text |-> <<" ", "S", "T", "A", "R", "T", " ">>]>>)

\* The requests received: a start command and a body that is no JSON, each
\* with every method, path and signature header, and every body posted to
\* /webhook with its right signature.
RequestsOf(b) ==
  {Request(m, p, sg, b) : m \in Methods, p \in Paths, sg \in SignaturesFor(b)}
Requests ==
  RequestsOf(StartU1) \cup RequestsOf(Garbage)
  \cup {Request("POST", "/webhook", Sign(b, channelSecret), b) : b \in Bodies}

\* ------------------------------------------------------------------- state
VARIABLES
  clock,     \* Date.now()
  store,     \* Deno KV, prefix ["users"]: the users present -> UserData
  req,       \* the webhook request being served: handler position, status
  nreq,      \* the number of requests received
  tasks,     \* the handleEvent calls of the request, one per event
  sweep,     \* the cron job: position, now, iterator, current entry, and
             \* whether the run has caught (and logged) an error
  lastCmd,   \* per user, the last start/stop sent alone and applied
  lastFail,  \* the entry of the last push of the sweep that failed
  mcast      \* the cron job of the multicast variant (src/unnamed/part_000):
             \* the values under ["subscribers"] in key order, position,
             \* the array subscribers, i, the recipient lists of the calls

vars == <<clock, store, req, nreq, tasks, sweep, lastCmd, lastFail, mcast>>

\* A handleEvent call that has resolved ("ok") or rejected; its locals are
\* gone.
Finished(outcome) ==
  [pc |-> outcome, user |-> NoUser, text |-> <<>>, cmd |-> "none", now |-> 0,
   replyText |-> ""]

NoEntry == [key |-> NoUser, value |-> UserData(0, 0)]

IdleSweep ==
  [pc |-> "idle", now |-> 0, cursor |-> 0, buffer |-> <<>>, entry |-> NoEntry,
   caught |-> FALSE]

\* The cron job of the multicast variant before its first run, with no
\* subscriber.
IdleMulticast ==
  [pc |-> "idle", kv |-> <<>>, subscribers |-> <<>>, i |-> 0, calls |-> <<>>,
   failed |-> FALSE]

Init ==
  /\ mcast = IdleMulticast
  /\ clock = 0
  /\ store = <<>>
  /\ req = [pc |-> "none", status |-> 0]
  /\ nreq = 0
  /\ tasks = <<>>
  /\ sweep = IdleSweep
  /\ lastCmd = [u \in Users |-> "none"]
  /\ lastFail = NoEntry

\* ------------------------------------------------------------------- clock
Advances(c) == 2 * (c \div oneHour) + (IF c % oneHour = 0 THEN 0 ELSE 1)

Advance ==
  /\ Advances(clock) < MaxAdvances
  /\ clock' = clock + Delta(clock)
  /\ UNCHANGED <<store, req, nreq, tasks, sweep, lastCmd, lastFail, mcast>>

\* ----------------------------------------------------------- handleEvent
Failed == {"threw", "kvfail", "replyfail"}
Pending == {"kvset", "kvdelete", "reply"}

\* handleEvent up to its first await, called at time t: the type checks, the
\* userId check, the normalised text, Date.now() and the dispatch of the
\* store operation or of the reply.
handleEventBegin(event, t) ==
  IF event.type = "message" /\ event.msgType = "missing"
    THEN Finished("threw")
  ELSE IF event.type # "message" \/ event.msgType # "text" THEN Finished("ok")
  ELSE IF event.userId = NoUser THEN Finished("ok")
  ELSE LET text == NormalizeText(event.text)
           cmd == CommandOf(text) IN
    IF cmd = "start"
      THEN [pc |-> "kvset", user |-> event.userId, text |-> text,
            cmd |-> "start", now |-> t, replyText |-> ""]
    ELSE IF cmd = "stop"
      THEN [pc |-> "kvdelete", user |-> event.userId, text |-> text,
            cmd |-> "stop", now |-> 0, replyText |-> ""]
    ELSE [pc |-> "reply", user |-> event.userId, text |-> text,
          cmd |-> "other", now |-> 0, replyText |-> HelpReply]

TaskIds == 1..MaxEvents
IsTask(i) == i \in 1..Len(tasks)

\* A start or stop handler of user u that has not completed.
CmdInFlight(u) ==
  \E i \in 1..Len(tasks) :
    /\ tasks[i].user = u
    /\ tasks[i].cmd \in {"start", "stop"}
    /\ tasks[i].pc \in Pending

\* The number of start/stop handlers a batch launches for user u.
RECURSIVE CmdCount(_, _)
CmdCount(ts, u) ==
  IF ts = <<>> THEN 0
  ELSE (IF Head(ts).user = u /\ Head(ts).cmd \in {"start", "stop"} THEN 1 ELSE 0)
       + CmdCount(Tail(ts), u)

\* The start/stop command a batch sends for user u when it sends exactly
\* one ("restart" for a start that follows a start), "mixed" when it sends
\* several, and the earlier one when none.
SentCmd(ts, u, before) ==
  IF CmdCount(ts, u) = 0 THEN before
  ELSE IF CmdCount(ts, u) > 1 THEN "mixed"
  ELSE LET i == CHOOSE k \in 1..Len(ts) :
                  ts[k].user = u /\ ts[k].cmd \in {"start", "stop"}
       IN IF ts[i].cmd = "start" /\ before \in {"start", "restart"}
            THEN "restart"
            ELSE ts[i].cmd

\* await kv.set(["users", userId], userData) of a start handler succeeds;
\* the handler goes on to the reply.
KvSetOk(i) ==
  /\ IsTask(i)
  /\ tasks[i].pc = "kvset"
  /\ store' = KvSet(store, tasks[i].user, UserData(tasks[i].now, tasks[i].now))
  /\ tasks' = [tasks EXCEPT ![i].pc = "reply", ![i].replyText = StartReply]
  /\ UNCHANGED <<clock, req, nreq, sweep, lastCmd, lastFail, mcast>>

\* await kv.delete(["users", userId]) of a stop handler succeeds.
KvDeleteOk(i) ==
  /\ IsTask(i)
  /\ tasks[i].pc = "kvdelete"
  /\ store' = KvDelete(store, tasks[i].user)
  /\ tasks' = [tasks EXCEPT ![i].pc = "reply", ![i].replyText = StopReply]
  /\ UNCHANGED <<clock, req, nreq, sweep, lastCmd, lastFail, mcast>>

\* A variant that swallows the error of the store and goes on to the reply.
KvFail_Swallowed(i) ==
  /\ IsTask(i)
  /\ tasks[i].pc \in {"kvset", "kvdelete"}
  /\ tasks' = [tasks EXCEPT ![i].pc = "reply",
                 ![i].replyText = IF tasks[i].cmd = "start" THEN StartReply
                                                             ELSE StopReply]
  /\ lastCmd' = [lastCmd EXCEPT ![tasks[i].user] = "mixed"]
  /\ UNCHANGED <<clock, store, req, nreq, sweep, lastFail, mcast>>

\* The store operation of a handler fails: the handler rejects, no reply.
KvFail(i) ==
  /\ IsTask(i)
  /\ tasks[i].pc \in {"kvset", "kvdelete"}
  /\ tasks' = [tasks EXCEPT ![i] = Finished("kvfail")]
  /\ lastCmd' = [lastCmd EXCEPT ![tasks[i].user] = "mixed"]
  /\ UNCHANGED <<clock, store, req, nreq, sweep, lastFail, mcast>>

\* await client.replyMessage(...) returns: the handler resolves.
ReplyOk(i) ==
  /\ IsTask(i)
  /\ tasks[i].pc = "reply"
  /\ tasks' = [tasks EXCEPT ![i] = Finished("ok")]
  /\ UNCHANGED <<clock, store, req, nreq, sweep, lastCmd, lastFail, mcast>>

\* A variant that undoes the start when its reply fails.
ReplyFail_RollsBack(i) ==
  /\ IsTask(i)
  /\ tasks[i].pc = "reply"
  /\ tasks' = [tasks EXCEPT ![i] = Finished("replyfail")]
  /\ store' = IF tasks[i].cmd = "start" THEN KvDelete(store, tasks[i].user)
                                         ELSE store
  /\ UNCHANGED <<clock, req, nreq, sweep, lastCmd, lastFail, mcast>>

\* await client.replyMessage(...) throws: the handler rejects.
ReplyFail(i) ==
  /\ IsTask(i)
  /\ tasks[i].pc = "reply"
  /\ tasks' = [tasks EXCEPT ![i] = Finished("replyfail")]
  /\ UNCHANGED <<clock, store, req, nreq, sweep, lastCmd, lastFail, mcast>>

\* ------------------------------------------------------------- Deno.serve
IsWebhookPost(method, path) ==
  method = "POST" /\ (path = "/webhook" \/ path = "/")

\* A variant that only checks that the header is there.
Unauthorized_HeaderOnly(body, signature) == signature = NoSig

\* if (!signature || !validateSignature(body, channelSecret, signature))
Unauthorized(body, signature) ==
  signature = NoSig \/ ~validateSignature(body, channelSecret, signature)

\* A variant in which the event that throws ends the map: the events after
\* it get no handler.
LaunchAll_StopAtThrow(events, t) ==
  [i \in 1..Len(events) |->
     IF \E j \in 1..(i - 1) : handleEventBegin(events[j], t).pc = "threw"
       THEN Finished("threw")
       ELSE handleEventBegin(events[i], t)]

\* The handlers launched by events.map((event) => handleEvent(event)).
LaunchAll(events, t) == [i \in 1..Len(events) |-> handleEventBegin(events[i], t)]

\* A variant that takes a body it cannot parse for an empty batch.
EarlyStatus_ParseOk(rq) ==
  IF rq.method = "GET" THEN 200
  ELSE IF ~IsWebhookPost(rq.method, rq.path) THEN 404
  ELSE IF Unauthorized(rq.body, rq.signature) THEN 401
  ELSE 0

\* The response of the request handler when it does not reach Promise.all,
\* 0 when it does.
EarlyStatus(rq) ==
  IF rq.method = "GET" THEN 200
  ELSE IF ~IsWebhookPost(rq.method, rq.path) THEN 404
  ELSE IF Unauthorized(rq.body, rq.signature) THEN 401
  ELSE IF rq.body.kind # "envelope" THEN 500
  ELSE 0

\* The request handler up to its response or up to await Promise.all(...).
\* Requests are served one after another: the next one is received once
\* every handler of the previous one has finished.
Serve(rq) ==
  /\ nreq < MaxRequests
  /\ req.pc # "awaiting"
  /\ \A i \in 1..Len(tasks) : tasks[i].pc \notin Pending
  /\ nreq' = nreq + 1
  /\ IF EarlyStatus(rq) # 0 THEN
       /\ req' = [pc |-> "done", status |-> EarlyStatus(rq)]
       /\ tasks' = <<>>
       /\ UNCHANGED lastCmd
     ELSE
       LET launched == LaunchAll(rq.body.events, clock) IN
       /\ req' = [pc |-> "awaiting", status |-> 0]
       /\ tasks' = launched
       /\ lastCmd' = [u \in Users |-> SentCmd(launched, u, lastCmd[u])]
  /\ UNCHANGED <<clock, store, sweep, lastFail, mcast>>

\* A variant that answers 200 once one handler has resolved.
Respond200_AnyOk ==
  /\ req.pc = "awaiting"
  /\ \E i \in 1..Len(tasks) : tasks[i].pc = "ok"
  /\ req' = [pc |-> "done", status |-> 200]
  /\ UNCHANGED <<clock, store, nreq, tasks, sweep, lastCmd, lastFail, mcast>>

\* Promise.all resolves once every handler has resolved: 200.
Respond200 ==
  /\ req.pc = "awaiting"
  /\ \A i \in 1..Len(tasks) : tasks[i].pc = "ok"
  /\ req' = [pc |-> "done", status |-> 200]
  /\ UNCHANGED <<clock, store, nreq, tasks, sweep, lastCmd, lastFail, mcast>>

\* Promise.all rejects as soon as one handler has rejected: catch, 500.
Respond500 ==
  /\ req.pc = "awaiting"
  /\ \E i \in 1..Len(tasks) : tasks[i].pc \in Failed
  /\ req' = [pc |-> "done", status |-> 500]
  /\ UNCHANGED <<clock, store, nreq, tasks, sweep, lastCmd, lastFail, mcast>>

\* ------------------------------------------- Deno.cron "Check User Timers"
\* A variant with a strict comparison.
Due_Strict(now, userData) == now - userData.lastSentTime > oneHour

\* if (now - userData.lastSentTime >= oneHour)
Due(now, userData) == now - userData.lastSentTime >= oneHour

\* A variant that overwrites the other field.
NewUserData_StartTime(userData, now) == [userData EXCEPT !.startTime = now]

\* const newUserData = { ...userData, lastSentTime: now }
NewUserData(userData, now) == [userData EXCEPT !.lastSentTime = now]

\* The keys present after the iterator's cursor, in key order.
RemainingKeys(kv, cursor) ==
  SelectSeq(KeyOrder, LAMBDA u : u \in DOMAIN kv /\ KeyIndex(u) > cursor)

\* The cron job fires (never while a run is in progress): const now =
\* Date.now(); kv.list creates the iterator without reading.
SweepStart ==
  /\ sweep.pc = "idle"
  /\ sweep' = [IdleSweep EXCEPT !.pc = "iter", !.now = clock]
  /\ UNCHANGED <<clock, store, req, nreq, tasks, lastCmd, lastFail, mcast>>

\* The iterator has no buffered entry and reads the next batch of n entries
\* from the store as it is now; with nothing left the loop and the run end.
SweepFetch(n) ==
  /\ sweep.pc = "iter"
  /\ sweep.buffer = <<>>
  /\ LET rest == RemainingKeys(store, sweep.cursor) IN
     IF rest = <<>> THEN
       /\ n = 1
       /\ sweep' = IdleSweep
     ELSE
       /\ n \in 1..Len(rest)
       /\ sweep' = [sweep EXCEPT
            !.buffer = [i \in 1..n |-> [key |-> rest[i], value |-> store[rest[i]]]],
            !.cursor = KeyIndex(rest[n])]
  /\ UNCHANGED <<clock, store, req, nreq, tasks, lastCmd, lastFail, mcast>>

\* The loop body for the next buffered entry: a subscriber that is due has
\* client.pushMessage dispatched, another one is passed over.
SweepNext ==
  /\ sweep.pc = "iter"
  /\ sweep.buffer # <<>>
  /\ LET entry == Head(sweep.buffer) IN
     IF Due(sweep.now, entry.value) THEN
       sweep' = [sweep EXCEPT !.pc = "push", !.buffer = Tail(sweep.buffer),
                              !.entry = entry]
     ELSE
       sweep' = [sweep EXCEPT !.buffer = Tail(sweep.buffer)]
  /\ UNCHANGED <<clock, store, req, nreq, tasks, lastCmd, lastFail, mcast>>

\* A variant that does not persist after an accepted push.
SweepPushOk_NoPersist ==
  /\ sweep.pc = "push"
  /\ sweep' = [sweep EXCEPT !.pc = "iter", !.entry = NoEntry]
  /\ UNCHANGED <<clock, store, req, nreq, tasks, lastCmd, lastFail, mcast>>

\* await client.pushMessage(...) returns: kv.set(entry.key, newUserData) is
\* dispatched.
SweepPushOk ==
  /\ sweep.pc = "push"
  /\ sweep' = [sweep EXCEPT !.pc = "set"]
  /\ UNCHANGED <<clock, store, req, nreq, tasks, lastCmd, lastFail, mcast>>

\* A variant that advances lastSentTime although the push failed.
SweepPushFail_Writes ==
  /\ sweep.pc = "push"
  /\ sweep' = [sweep EXCEPT !.pc = "iter", !.entry = NoEntry, !.caught = TRUE]
  /\ store' = KvSet(store, sweep.entry.key,
                     [sweep.entry.value EXCEPT !.lastSentTime = sweep.now])
  /\ lastFail' = sweep.entry
  /\ UNCHANGED <<clock, req, nreq, tasks, lastCmd, mcast>>

\* await client.pushMessage(...) throws: caught and logged, next entry.
SweepPushFail ==
  /\ sweep.pc = "push"
  /\ sweep' = [sweep EXCEPT !.pc = "iter", !.entry = NoEntry, !.caught = TRUE]
  /\ lastFail' = sweep.entry
  /\ UNCHANGED <<clock, store, req, nreq, tasks, lastCmd, mcast>>

\* await kv.set(entry.key, newUserData) succeeds: next entry.
SweepSetOk ==
  /\ sweep.pc = "set"
  /\ store' = KvSet(store, sweep.entry.key,
                     NewUserData(sweep.entry.value, sweep.now))
  /\ sweep' = [sweep EXCEPT !.pc = "iter", !.entry = NoEntry]
  /\ UNCHANGED <<clock, req, nreq, tasks, lastCmd, lastFail, mcast>>

\* A variant in which the error of the write ends the run.
SweepSetFail_Aborts ==
  /\ sweep.pc = "set"
  /\ sweep' = IdleSweep
  /\ UNCHANGED <<clock, store, req, nreq, tasks, lastCmd, lastFail, mcast>>

\* await kv.set(entry.key, newUserData) throws: caught and logged, next entry.
SweepSetFail ==
  /\ sweep.pc = "set"
  /\ sweep' = [sweep EXCEPT !.pc = "iter", !.entry = NoEntry, !.caught = TRUE]
  /\ UNCHANGED <<clock, store, req, nreq, tasks, lastCmd, lastFail, mcast>>

\* ----------------------------------------------------------- specification
\* The steps of the clock, of the request handler for the requests of rqs,
\* of the handleEvent calls and of the cron job.
NextWith(rqs) ==
  \/ Advance
  \/ \E rq \in rqs : Serve(rq)
  \/ \E i \in TaskIds : KvSetOk(i)
  \/ \E i \in TaskIds : KvDeleteOk(i)
  \/ \E i \in TaskIds : KvFail(i)
  \/ \E i \in TaskIds : ReplyOk(i)
  \/ \E i \in TaskIds : ReplyFail(i)
  \/ Respond200
  \/ Respond500
  \/ SweepStart
  \/ \E n \in 1..Len(KeyOrder) : SweepFetch(n)
  \/ SweepNext
  \/ SweepPushOk
  \/ SweepPushFail
  \/ SweepSetOk
  \/ SweepSetFail

Next == NextWith(Requests)

Spec == Init /\ [][Next]_vars

\* The progress of the cron job: Deno.cron fires again once the last run
\* has ended, every await of a run returns, and neither the gateway nor the
\* store fails for one subscriber for ever.
SweepFairness ==
  /\ WF_vars(SweepStart)
  /\ WF_vars(\E n \in 1..Len(KeyOrder) : SweepFetch(n))
  /\ WF_vars(SweepNext)
  /\ WF_vars(SweepPushOk \/ SweepPushFail)
  /\ WF_vars(SweepSetOk \/ SweepSetFail)
  /\ \A u \in Users : SF_vars(SweepPushOk /\ sweep.entry.key = u)
  /\ \A u \in Users : SF_vars(SweepSetOk /\ sweep.entry.key = u)

\* The commands of the liveness check: start and stop of U1, start of U2,
\* each alone in its envelope.
TextOf(u, text) ==
  Envelope(<<[type |-> "message", msgType |-> "text", userId |-> u,
              text |-> text]>>)
LiveRequests ==
  {Request("POST", "/webhook", Sign(b, channelSecret), b) :
     b \in {StartU1, TextOf("U2", <<"s", "t", "a", "r", "t">>),
            TextOf("U1", <<"S", "t", "o", "p", "\n">>)}}

LiveNext == NextWith(LiveRequests)

LiveSpec == Init /\ [][LiveNext]_vars /\ SweepFairness

\* ------------------------------------------------------------------ claims
Present(u) == u \in DOMAIN store

\* No start/stop handler of u is running and the last start/stop of u was
\* sent alone and applied to the store.
Settled(u) == ~CmdInFlight(u) /\ lastCmd[u] # "mixed"
OptedIn(u) == lastCmd[u] \in {"start", "restart"}

\* The step in which the sweep dispatches a push to u.
PushesTo(u) == sweep.pc = "iter" /\ sweep'.pc = "push" /\ sweep'.entry.key = u

\* The step in which the sweep's kv.set returns.
SweepWrites == sweep.pc = "set" /\ sweep'.pc = "iter"

\* C1: once a stop of u has completed and no start of u was sent since, u
\* has no record and no tick pushes to u.
C1_StopRemovesState ==
  /\ [](\A u \in Users : (Settled(u) /\ lastCmd[u] = "stop") => ~Present(u))
  /\ [][\A u \in Users :
          (Settled(u) /\ lastCmd[u] = "stop") => ~PushesTo(u)]_vars

\* C2: when no command of u is in flight, u has a record if and only if the
\* last completed command of u is start.
C2_RecordIffOptedIn ==
  \A u \in Users : Settled(u) => (Present(u) <=> OptedIn(u))

\* C3: every record of the store has lastSentTime >= startTime.
C3_LastSentAfterStart ==
  \A u \in DOMAIN store : store[u].lastSentTime >= store[u].startTime

\* A record the sweep has advanced.
C3_Witness ==
  \E u \in DOMAIN store : store[u].lastSentTime > store[u].startTime

\* C4: a tick whose now is before lastSentTime + oneHour neither pushes to
\* the subscriber nor writes its record; a tick at lastSentTime + oneHour or
\* later pushes, and the write that follows an accepted push stores the
\* tick's now as lastSentTime.
C4_DueComputation ==
  /\ [](sweep.pc \in {"push", "set"} =>
          sweep.now >= sweep.entry.value.lastSentTime + oneHour)
  /\ [][/\ (sweep.pc = "iter" /\ sweep.buffer # <<>> /\ sweep' # sweep) =>
            /\ store' = store
            /\ IF sweep.now < Head(sweep.buffer).value.lastSentTime + oneHour
                 THEN sweep'.pc = "iter"
                 ELSE sweep'.pc = "push" /\ sweep'.entry = Head(sweep.buffer)
        /\ (sweep.pc # "set" /\ sweep'.pc = "set") =>
            sweep.pc = "push" /\ sweep'.entry = sweep.entry
        /\ (SweepWrites /\ store' # store) =>
            /\ sweep.entry.key \in DOMAIN store'
            /\ store'[sweep.entry.key].lastSentTime = sweep.now]_vars

\* An entry read exactly oneHour after its lastSentTime was pushed to, the
\* push was accepted and the write is under way.
C4_Witness ==
  /\ sweep.pc = "set"
  /\ sweep.now = sweep.entry.value.lastSentTime + oneHour

\* C5: a failed push leaves the store as it is, and a later tick that reads
\* the same record pushes to the subscriber again.
C5_AtLeastOnce ==
  [][/\ (sweep.pc = "push" /\ sweep'.pc = "iter") => store' = store
     /\ (/\ sweep.pc = "iter" /\ sweep.buffer # <<>> /\ sweep' # sweep
         /\ Head(sweep.buffer) = lastFail) =>
          sweep'.pc = "push" /\ sweep'.entry = lastFail]_vars

\* The push that failed is attempted again for the unchanged record.
C5_Witness ==
  /\ sweep.pc = "push"
  /\ sweep.entry = lastFail
  /\ Present(lastFail.key)
  /\ store[lastFail.key] = lastFail.value

\* C6: when the handler of a second start of u completes, u has exactly one
\* record and both its fields are the timestamp the second call took.
C6_IdempotentStart ==
  [][\A i \in 1..Len(tasks) :
       (/\ tasks[i].pc = "reply"
        /\ tasks[i].cmd = "start"
        /\ tasks'[i].pc \in {"ok", "replyfail"}
        /\ lastCmd[tasks[i].user] = "restart"
        /\ clock = tasks[i].now) =>
         /\ tasks[i].user \in DOMAIN store'
         /\ store'[tasks[i].user] = UserData(tasks[i].now, tasks[i].now)]_vars

\* The k-th instant of the clock and the instants it takes.
Instant(k) == (k \div 2) * oneHour + (IF k % 2 = 1 THEN oneHour - 1 ELSE 0)
Instants == {Instant(k) : k \in 0..MaxAdvances}
\* The instants that the clock leaves oneHour behind.
PastInstants == {t \in Instants : t + oneHour <= Instant(MaxAdvances)}

\* The record of u has lastSentTime t and the interval has elapsed.
DueSince(u, t) ==
  Present(u) /\ store[u].lastSentTime = t /\ clock >= t + oneHour

\* A push to u was accepted and the tick is writing the record back.
PushAccepted(u) == sweep.pc = "set" /\ sweep.entry.key = u

C8_SweepWriteFrame ==
  [][(SweepWrites /\ store' # store) =>
       /\ DOMAIN store' = DOMAIN store
       /\ \A u \in DOMAIN store :
            /\ store'[u].startTime = store[u].startTime
            /\ u # sweep.entry.key => store'[u] = store[u]]_vars

\* The webhook posts whose signature header is missing or is not the
\* signature of their body.
BadSignature(rq) ==
  /\ rq.method = "POST"
  /\ rq.path \in {"/webhook", "/"}
  /\ rq.signature = NoSig \/ rq.signature # Sign(rq.body, channelSecret)

BadRequests == {rq \in Requests : BadSignature(rq)}

\* The request was answered 401 and no handleEvent was called.
Rejected == req = [pc |-> "done", status |-> 401] /\ tasks = <<>>

\* C9: a webhook post with a missing or wrong signature launches no
\* handleEvent, changes nothing in the store, and is answered 401: a step
\* of the request handler that ends otherwise is the step of no such post.
C9_UnauthenticatedRejection ==
  [][nreq' # nreq =>
       /\ store' = store
       /\ ~Rejected' => \A rq \in BadRequests : ~Serve(rq)]_vars

\* A request was rejected while the store holds a record.
C9_Witness == Rejected /\ DOMAIN store # {}

\* The handlers of a text that is neither start nor stop once trimmed and
\* lower-cased (the handler's local text).
Unrecognized(i) ==
  /\ tasks[i].pc \in Pending
  /\ tasks[i].text \notin {StartText, StopText}

\* C10: for an unrecognized text handleEvent sends the help reply and
\* changes nothing in the store: it is called without a store operation, it
\* waits for the help reply only, and the store is the same when it ends.
C10_UnrecognizedCommand ==
  /\ [](\A i \in 1..Len(tasks) :
          Unrecognized(i) =>
            tasks[i].pc = "reply" /\ tasks[i].replyText = HelpReply)
  /\ [][/\ nreq' # nreq => store' = store
        /\ \A i \in 1..Len(tasks) :
             (Unrecognized(i) /\ nreq' = nreq /\ tasks'[i] # tasks[i]) =>
               /\ tasks'[i].pc \in {"ok", "replyfail"}
               /\ store' = store]_vars

\* The help reply is on its way while the store holds a record.
C10_Witness ==
  /\ DOMAIN store # {}
  /\ \E i \in 1..Len(tasks) :
       Unrecognized(i) /\ tasks[i].replyText = HelpReply

\* The event with type "message" and no message object: handleEvent throws.
MalformedEvent ==
  [type |-> "message", msgType |-> "missing", userId |-> "U1", text |-> <<>>]

\* The authenticated posts of two events, the malformed one and a text
\* message, in either order.
MixedRequests ==
  {Request("POST", "/webhook", Sign(b, channelSecret), b) :
     b \in {Envelope(es) :
              es \in {<<MalformedEvent, e>> : e \in TextEvents}
                     \cup {<<e, MalformedEvent>> : e \in TextEvents}}}

\* The step of handler i is its own: the store operation it waits for is
\* applied or fails, the reply it waits for returns or fails.
OwnStep(i) ==
  /\ tasks[i].pc = "kvset" =>
       \/ /\ tasks'[i].pc = "reply"
          /\ store' = KvSet(store, tasks[i].user,
                             UserData(tasks[i].now, tasks[i].now))
       \/ tasks'[i].pc = "kvfail" /\ store' = store
  /\ tasks[i].pc = "kvdelete" =>
       \/ tasks'[i].pc = "reply" /\ store' = KvDelete(store, tasks[i].user)
       \/ tasks'[i].pc = "kvfail" /\ store' = store
  /\ tasks[i].pc = "reply" => tasks'[i].pc \in {"ok", "replyfail"}

\* C11: a batch with a malformed event launches the handler of its valid
\* event all the same; a handler that waits can always take its step,
\* whatever became of its siblings and of the response; and while the
\* request is served a handler changes by its own step only, no handler is
\* dropped and no two change together.
C11_EventIsolation ==
  /\ [](\A i \in 1..Len(tasks) :
          /\ tasks[i].pc = "kvset" => ENABLED KvSetOk(i)
          /\ tasks[i].pc = "kvdelete" => ENABLED KvDeleteOk(i)
          /\ tasks[i].pc = "reply" => ENABLED ReplyOk(i))
  /\ [][/\ (nreq' # nreq
            /\ ~(Len(tasks') = 2 /\ \E i \in 1..2 : tasks'[i].pc \in Pending)) =>
             \A rq \in MixedRequests : ~Serve(rq)
        /\ nreq' = nreq =>
             /\ Len(tasks') = Len(tasks)
             /\ \A i \in 1..Len(tasks) :
                  tasks'[i] # tasks[i] =>
                    /\ tasks[i].pc \in Pending
                    /\ OwnStep(i)
                    /\ \A j \in 1..Len(tasks) : j # i => tasks'[j] = tasks[j]]_vars

\* The valid event of a batch has its record written and its reply under
\* way after its sibling threw and the request was answered 500.
C11_Witness ==
  /\ req = [pc |-> "done", status |-> 500]
  /\ \E i, j \in 1..Len(tasks) :
       /\ tasks[j].pc = "threw"
       /\ tasks[i].pc = "reply"
       /\ tasks[i].cmd = "start"
       /\ Present(tasks[i].user)

\* C12: a request is answered 200 only when every handler of its batch has
\* resolved, and a request one of whose handlers has rejected is answered
\* 500.
C12_NoPartialSuccess ==
  req.pc = "done" =>
    /\ req.status = 200 => \A i \in 1..Len(tasks) : tasks[i].pc = "ok"
    /\ (\E i \in 1..Len(tasks) : tasks[i].pc \in Failed) => req.status = 500

\* A batch of which one handler resolved and one rejected was answered 500,
\* with a record in the store.
C12_Witness ==
  /\ req = [pc |-> "done", status |-> 500]
  /\ DOMAIN store # {}
  /\ \E i, j \in 1..Len(tasks) :
       tasks[i].pc = "ok" /\ tasks[j].pc \in {"kvfail", "replyfail"}

\* C13: the run goes on after a delivery or a write has ended, in error or
\* not, with the same now and the same entries to come; after an error the
\* entries to come are decided as any other, the run is never stopped by
\* it, and the run ends only when the scan has nothing left.
C13_SweepFailureIsolation ==
  /\ []((sweep.caught /\ sweep.pc = "iter") =>
          ENABLED (SweepNext \/ \E n \in 1..Len(KeyOrder) : SweepFetch(n)))
  /\ [][/\ (sweep.pc \in {"push", "set"} /\ sweep'.pc \notin {"push", "set"}) =>
             /\ sweep'.pc = "iter"
             /\ sweep'.now = sweep.now
             /\ sweep'.buffer = sweep.buffer
             /\ sweep'.cursor = sweep.cursor
        /\ (sweep.caught /\ sweep.pc = "iter" /\ sweep.buffer # <<>>
            /\ sweep' # sweep) =>
             IF Due(sweep.now, Head(sweep.buffer).value)
               THEN sweep'.pc = "push" /\ sweep'.entry = Head(sweep.buffer)
               ELSE sweep'.pc = "iter" /\ sweep'.buffer = Tail(sweep.buffer)
        /\ (sweep.pc # "idle" /\ sweep'.pc = "idle") =>
             /\ sweep.pc = "iter"
             /\ sweep.buffer = <<>>
             /\ RemainingKeys(store, sweep.cursor) = <<>>]_vars

\* In a run that caught an error for U1, U2 was pushed to and its record is
\* being written.
C13_Witness ==
  /\ sweep.caught
  /\ lastFail.key = "U1"
  /\ sweep.pc = "set"
  /\ sweep.entry.key = "U2"

\* C14: a handler that waits for its kv.set or kv.delete goes on to the
\* reply only with the operation applied; otherwise it rejects with the
\* store unchanged and never sends a reply, and the request of a handler
\* whose store operation failed is answered 500.
C14_StoreFailurePropagates ==
  /\ []((req.pc = "done" /\ \E i \in 1..Len(tasks) : tasks[i].pc = "kvfail") =>
          req.status = 500)
  /\ [][nreq' = nreq =>
          \A i \in 1..Len(tasks) :
            /\ (tasks[i].pc \in {"kvset", "kvdelete"} /\ tasks'[i] # tasks[i]) =>
                 IF tasks'[i].pc = "reply"
                   THEN store' = IF tasks[i].cmd = "start"
                                   THEN KvSet(store, tasks[i].user,
                                              UserData(tasks[i].now, tasks[i].now))
                                   ELSE KvDelete(store, tasks[i].user)
                   ELSE tasks'[i] = Finished("kvfail") /\ store' = store
            /\ tasks[i].pc = "kvfail" => tasks'[i] = tasks[i]]_vars

\* The only handler of a request rejected on its store operation and the
\* request was answered 500.
C14_Witness ==
  /\ req = [pc |-> "done", status |-> 500]
  /\ Len(tasks) = 1
  /\ tasks[1].pc = "kvfail"

\* The authenticated webhook posts whose body is no JSON or has no events.
MalformedRequests ==
  {rq \in Requests :
     /\ IsWebhookPost(rq.method, rq.path)
     /\ rq.signature = Sign(rq.body, channelSecret)
     /\ rq.body.kind # "envelope"}

\* The request was answered 500 and no handleEvent was called.
ParseFailed == req = [pc |-> "done", status |-> 500] /\ tasks = <<>>

\* C15: an authenticated post whose body cannot be parsed as the events
\* envelope is answered 500 with no handleEvent call and the store
\* unchanged: a step of the request handler that ends otherwise is the step
\* of no such post.
C15_MalformedPayload ==
  [][(nreq' # nreq /\ ~(ParseFailed' /\ store' = store)) =>
       \A rq \in MalformedRequests : ~Serve(rq)]_vars

\* A body that could not be parsed was answered 500 while the store holds a
\* record.
C15_Witness == ParseFailed /\ DOMAIN store # {}

\* C16: once the response of a batch has been returned, no handler of the
\* batch is still waiting for its store operation or for its reply.
C16_AllTasksAwaited ==
  req.pc = "done" => \A i \in 1..Len(tasks) : tasks[i].pc \notin Pending

\* ------------------------------------------------- the schedule of the cron
\* A minute passes and the schedule of Deno.cron is due: the callback is
\* called, and takes its now, unless the run before it is still in
\* progress, in which case this invocation is left out.
CronTick ==
  /\ clock + cadence <= MaxMinutes * cadence
  /\ clock' = clock + cadence
  /\ sweep' = IF sweep.pc = "idle"
                THEN [IdleSweep EXCEPT !.pc = "iter", !.now = clock']
                ELSE sweep
  /\ UNCHANGED <<store, req, nreq, tasks, lastCmd, lastFail, mcast>>

\* The commands of the timed specification: U1 starts at time 0 and sends
\* nothing else.
DriftRequests ==
  {Request("POST", "/webhook", Sign(StartU1, channelSecret), StartU1)}

DriftServe == clock = 0 /\ \E rq \in DriftRequests : Serve(rq)

\* The steps with the clock and the schedule in minutes, when neither the
\* store nor the gateway fails.
DriftNext ==
  \/ CronTick
  \/ DriftServe
  \/ \E i \in TaskIds : KvSetOk(i)
  \/ \E i \in TaskIds : ReplyOk(i)
  \/ Respond200
  \/ \E n \in 1..Len(KeyOrder) : SweepFetch(n)
  \/ SweepNext
  \/ SweepPushOk
  \/ SweepSetOk

DriftSpec == Init /\ [][DriftNext]_vars

\* C17: when the write of a delivery replaces the record that the delivery
\* before it wrote, the new lastSentTime is the tick's now, and it is later
\* than the old one by the interval at least and by the interval plus one
\* cadence at most.
C17_DriftBound ==
  [][(/\ SweepWrites
      /\ sweep.entry.key \in DOMAIN store
      /\ store[sweep.entry.key] = sweep.entry.value
      /\ sweep.entry.value.lastSentTime > sweep.entry.value.startTime) =>
       /\ store'[sweep.entry.key].lastSentTime = sweep.now
       /\ sweep.now - sweep.entry.value.lastSentTime >= oneHour
       /\ sweep.now - sweep.entry.value.lastSentTime <= oneHour + cadence]_vars

\* The progress of the cron job when the push to U1 may never return: every
\* other await of a run returns, and neither the gateway nor the store
\* fails for U2 for ever.
StuckFairness ==
  /\ WF_vars(SweepStart)
  /\ WF_vars(\E n \in 1..Len(KeyOrder) : SweepFetch(n))
  /\ WF_vars(SweepNext)
  /\ WF_vars((SweepPushOk \/ SweepPushFail) /\ sweep.entry.key # "U1")
  /\ WF_vars(SweepSetOk \/ SweepSetFail)
  /\ SF_vars(SweepPushOk /\ sweep.entry.key = "U2")
  /\ SF_vars(SweepSetOk /\ sweep.entry.key = "U2")

StuckSpec == Init /\ [][LiveNext]_vars /\ StuckFairness

\* The tick waits for the push to U1 while the record of U2 is due for it.
PushToU1WhileU2Due ==
  /\ sweep.pc = "push"
  /\ sweep.entry.key = "U1"
  /\ Present("U2")
  /\ Due(sweep.now, store["U2"])

\* C18: while a tick waits for the push to U1 and U2 is due, U2 is pushed
\* to as well (or starts again and is due no more), however long the push
\* to U1 takes.
C18_StuckDeliveryNoStall ==
  PushToU1WhileU2Due ~>
    \/ sweep.pc \in {"push", "set"} /\ sweep.entry.key = "U2"
    \/ ~(Present("U2") /\ Due(sweep.now, store["U2"]))

\* ------------------------- Deno.cron "Send Hourly Message" (multicast variant)
\* const chunkSize = 500
chunkSize == 500

\* The most recipients the gateway takes in one multicast call.
MulticastLimit == 500

Min(a, b) == IF a <= b THEN a ELSE b

\* A variant of slice that takes the element at the end index as well.
slice_Inclusive(s, from, to) == SubSeq(s, from + 1, Min(to + 1, Len(s)))

\* Array.prototype.slice(from, to) for 0 <= from <= to, on an array kept as
\* a sequence indexed from 1.
slice(s, from, to) == SubSeq(s, from + 1, Min(to, Len(s)))

\* The subscribers scanned: the keys under ["subscribers"], in key order,
\* whose value is true. The k-th key stands for itself.
ScanSubscribers(kv) ==
  SelectSeq([k \in 1..Len(kv) |-> k], LAMBDA k : kv[k] = TRUE)

\* The cron job fires: the scan fills the array subscribers; with nobody to
\* send to the run returns, otherwise the loop starts at i = 0.
MulticastStart ==
  /\ mcast.pc \in {"idle", "done"}
  /\ LET subscribers == ScanSubscribers(mcast.kv) IN
     mcast' = [mcast EXCEPT
       !.pc = IF Len(subscribers) = 0 THEN "done" ELSE "loop",
       !.subscribers = subscribers, !.i = 0, !.calls = <<>>, !.failed = FALSE]
  /\ UNCHANGED <<clock, store, req, nreq, tasks, sweep, lastCmd, lastFail>>

\* The loop test and body: while i < subscribers.length the chunk is sliced
\* and client.multicast is called with it; otherwise the run ends.
MulticastSend ==
  /\ mcast.pc = "loop"
  /\ IF mcast.i < Len(mcast.subscribers) THEN
       LET chunk == slice(mcast.subscribers, mcast.i, mcast.i + chunkSize) IN
       mcast' = [mcast EXCEPT !.pc = "call", !.calls = Append(mcast.calls, chunk)]
     ELSE
       mcast' = [mcast EXCEPT !.pc = "done"]
  /\ UNCHANGED <<clock, store, req, nreq, tasks, sweep, lastCmd, lastFail>>

\* await client.multicast(...) returns: i += chunkSize.
MulticastOk ==
  /\ mcast.pc = "call"
  /\ mcast' = [mcast EXCEPT !.pc = "loop", !.i = mcast.i + chunkSize]
  /\ UNCHANGED <<clock, store, req, nreq, tasks, sweep, lastCmd, lastFail>>

\* await client.multicast(...) throws: caught and logged, the run ends.
MulticastFail ==
  /\ mcast.pc = "call"
  /\ mcast' = [mcast EXCEPT !.pc = "done", !.failed = TRUE]
  /\ UNCHANGED <<clock, store, req, nreq, tasks, sweep, lastCmd, lastFail>>

\* The multicast variant alone, for every number of subscribers.
ChunkInit ==
  /\ mcast \in {[IdleMulticast EXCEPT !.kv = [k \in 1..n |-> TRUE]] :
                  n \in 0..MaxSubscribers}
  /\ clock = 0
  /\ store = <<>>
  /\ req = [pc |-> "none", status |-> 0]
  /\ nreq = 0
  /\ tasks = <<>>
  /\ sweep = IdleSweep
  /\ lastCmd = [u \in Users |-> "none"]
  /\ lastFail = NoEntry

ChunkNext == MulticastStart \/ MulticastSend \/ MulticastOk \/ MulticastFail

ChunkSpec == ChunkInit /\ [][ChunkNext]_vars

\* The recipient lists of the calls, concatenated in call order.
RECURSIVE Concat(_)
Concat(lists) == IF lists = <<>> THEN <<>> ELSE Head(lists) \o Concat(Tail(lists))

C20_MutationBeforeReply ==
  /\ []((req.pc = "done" /\ \E i \in 1..Len(tasks) : tasks[i].pc = "replyfail")
          => req.status = 500)
  /\ [][nreq' = nreq =>
          \A i \in 1..Len(tasks) :
            /\ (tasks[i].pc = "reply" /\ tasks'[i] # tasks[i]) => store' = store
            /\ (tasks[i].pc # "reply" /\ tasks'[i].pc = "reply") =>
                 \/ /\ tasks[i].pc = "kvset"
                    /\ tasks[i].user \in DOMAIN store'
                    /\ store'[tasks[i].user] =
                         UserData(tasks[i].now, tasks[i].now)
                 \/ /\ tasks[i].pc = "kvdelete"
                    /\ tasks[i].user \notin DOMAIN store']_vars

\* The reply of the first start of U1 failed, the request was answered 500
\* and the record the start wrote is in the store.
C20_Witness ==
  /\ req = [pc |-> "done", status |-> 500]
  /\ nreq = 1
  /\ Len(tasks) = 1
  /\ tasks[1].pc = "replyfail"
  /\ lastCmd["U1"] = "start"
  /\ Present("U1")
  /\ store["U1"] = UserData(0, 0)

====
